---- MODULE Spec2Model ----
(***************************************************************************)
(* Model of the antenna risk-acceptance ledger (AcceptanceManager) and of  *)
(* the `antenna accept` command that drives it.                            *)
(*                                                                         *)
(* The ledger file is modelled at the granularity the code observes it:    *)
(* a sequence of raw lines (the text between two "\n"), whether the last   *)
(* raw line is newline-terminated, and whether the file exists at all.     *)
(* A raw line is a serialized record (possibly followed by white space),   *)
(* unparsable text, or the empty string.  SHA-256 is modelled as an        *)
(* injective function of the hashed line (no collisions).                  *)
(*                                                                         *)
(* The second half models the runtime monitor (SecurityWatcher): its       *)
(* fields, the three monitors start() launches, the event sink and the     *)
(* kill switch.  JavaScript runs one callback at a time to completion:     *)
(* `turn` names the task on the thread, and a task only gives the thread   *)
(* up where the code awaits something that is not yet there.               *)
(***************************************************************************)
EXTENDS Integers, Sequences, FiniteSets, TLC

\* ------------------------------------------------------------------ bounds
MaxLines == 3      \* raw lines a ledger file may hold
MaxTime  == 2      \* the clock runs over 0..MaxTime (unit: one day)
MaxEdits == 2      \* out-of-band edits of the ledger file in one behaviour
MaxStarts == 2     \* calls of start() on one watcher
MaxEvents == 3     \* events handed to the sink in one behaviour
MaxTicks == 3      \* the watcher's clock runs over 0..MaxTicks half hours
MaxLogLines == 3   \* lines of the monitored audit log
MaxSettling == 2   \* transcript callbacks inside their wait at one time
MaxEventLines == 3 \* lines of the events file the correlator reads

Procs      == {"p1", "p2"}     \* actors (OS processes), each with an AcceptanceManager
FindingIds == {"CHAN-001", "TOOL-002"}
Days       == {1}              \* values of --expires (expirationDays)

VARIABLES
    file,    \* the backing file: [exists, lines, nl]
    now,     \* the wall clock, new Date()
    pc,      \* pc[p]: where actor p stands inside its current call
    loc,     \* loc[p]: the locals of actor p's current accept() call
    edits,   \* number of out-of-band edits made so far
    op       \* the step just taken: [name, id, res]

\* the SecurityWatcher object, its environment and its tasks
VARIABLES
    options,              \* this.options: [killOn, maxKillsPerHour, startupCooldown,
                          \*                outputFile, restartAfter]
    killCount,            \* this.killCount
    killCountResetTime,   \* this.killCountResetTime (ms)
    startTime,            \* this.startTime (ms)
    running,              \* this.running
    openclawUid,          \* this.openclawUid ("" is null)
    clock,                \* Date.now() (ms since the watcher was constructed)
    env,                  \* the host: [audit, config, agents, uid]
    auditLog,             \* the lines of /var/log/audit/audit.log
    runs,                 \* one entry per start() call: its monitors and its promise
    call,                 \* call[m]: the emitEvent() call made by monitor m's callback
    turn,                 \* the task on the JavaScript thread, or "none"
    emitted,              \* number of events handed to emitEvent so far
    acts,                 \* the protective actions performed: <<[at, severity], ...>>
    win,                  \* since the last window reset: [qual, kills, by]
    timers,               \* the restart timeouts set and not yet fired: <<[due, act], ...>>
    restarts,             \* the start commands issued by fired timeouts: <<[at, act], ...>>
    settling,             \* transcript callbacks inside their 100 ms wait
    burst,                \* config_change events emitted since the clock last moved
    eventsFile,           \* ~/.openclaw/antenna-events.jsonl: [exists, lines]
    notices               \* notices[i]: changes of the events file that the
                          \* fs.watch handle of start() call i has yet to report

wvars == <<options, killCount, killCountResetTime, startTime, running,
           openclawUid, clock, env, auditLog, runs, call, turn, emitted,
           acts, win, timers, restarts, settling, burst, eventsFile,
           notices>>

vars == <<file, now, pc, loc, edits, op, wvars>>

\* ------------------------------------------------------------ lines, hashes

\* '0'.repeat(64)
Genesis == <<>>

\* createHash('sha256').update(data).digest('hex'): injective in the line
sha256(data) == <<data>>

\* JSON.stringify(acceptance): the line accept() writes.  The free-text fields
\* (accepted_by, reason, mitigations) take part in no decision and are left out.
Serialize(id, exp, prev) ==
    [kind |-> "rec", id |-> id, exp |-> exp, prev |-> prev,
     pad |-> FALSE, txt |-> <<>>]

\* a line of text that JSON.parse rejects
Garbage ==
    [kind |-> "bad", id |-> "", exp |-> 0, prev |-> Genesis,
     pad |-> FALSE, txt |-> <<>>]

\* the empty string between two newlines
EmptyLine ==
    [kind |-> "empty", id |-> "", exp |-> 0, prev |-> Genesis,
     pad |-> FALSE, txt |-> <<>>]

\* the text a followed by the text b on the same raw line: never valid JSON
Concat(a, b) ==
    [kind |-> "bad", id |-> "", exp |-> 0, prev |-> Genesis,
     pad |-> FALSE, txt |-> <<a, b>>]

\* no record (null)
NoRec ==
    [kind |-> "none", id |-> "", exp |-> 0, prev |-> Genesis,
     pad |-> FALSE, txt |-> <<>>]

\* ------------------------------------------------------------------ the file

Missing   == [exists |-> FALSE, lines |-> <<>>, nl |-> TRUE]
EmptyFile == [exists |-> TRUE,  lines |-> <<>>, nl |-> TRUE]

\* existsSync(this.filePath)
existsSync(f) == f.exists

\* writeFileSync(this.filePath, '', { mode: 0o600 }): creates or truncates
writeFileSync(f) == EmptyFile

\* appendFileSync(this.filePath, line + '\n'): the bytes go after the last
\* byte of the file, on the last raw line when that one is unterminated
appendFileSync(f, l) ==
    IF f.lines # <<>> /\ ~f.nl
    THEN [exists |-> TRUE,
          lines  |-> [f.lines EXCEPT ![Len(f.lines)] = Concat(@, l)],
          nl     |-> TRUE]
    ELSE [exists |-> TRUE, lines |-> Append(f.lines, l), nl |-> TRUE]

NonEmpty(l) == l.kind # "empty"

\* readFileSync(path, 'utf8').trim().split('\n').filter(Boolean):
\* filter(Boolean) drops the empty strings, trim() strips the white space
\* after the last non-empty line
ReadLines(f) ==
    LET ne == SelectSeq(f.lines, NonEmpty)
    IN  IF ne = <<>> THEN <<>>
        ELSE [ne EXCEPT ![Len(ne)].pad = FALSE]

\* JSON.parse(line) succeeds; white space around the value is accepted
Parses(l) == l.kind = "rec"

\* JSON.parse(line) as RiskAcceptance: the record, without the white space
JSONparse(l) == [l EXCEPT !.pad = FALSE]

\* ------------------------------------------------------------ AcceptanceManager

ChainOk == [valid |-> TRUE, line |-> 0, error |-> "none"]

RECURSIVE VerifyLoopSkipsBad(_, _, _)
\* verifyChain()'s loop, were its catch to go on to the next line
VerifyLoopSkipsBad(lines, i, expectedPrevHash) ==
    IF i > Len(lines) THEN ChainOk
    ELSE IF ~Parses(lines[i])
         THEN VerifyLoopSkipsBad(lines, i + 1, expectedPrevHash)
    ELSE IF JSONparse(lines[i]).prev # expectedPrevHash
         THEN [valid |-> FALSE, line |-> i, error |-> "Chain broken"]
    ELSE VerifyLoopSkipsBad(lines, i + 1, sha256(lines[i]))

RECURSIVE VerifyLoopTrustsPrev(_, _, _)
\* verifyChain()'s loop, were expectedPrevHash taken from the next record's
\* own prev_hash instead of sha256(lines[i])
VerifyLoopTrustsPrev(lines, i, expectedPrevHash) ==
    IF i > Len(lines) THEN ChainOk
    ELSE IF ~Parses(lines[i])
         THEN [valid |-> FALSE, line |-> i, error |-> "Invalid JSON"]
    ELSE IF JSONparse(lines[i]).prev # expectedPrevHash
         THEN [valid |-> FALSE, line |-> i, error |-> "Chain broken"]
    ELSE VerifyLoopTrustsPrev(lines, i + 1,
                              IF i < Len(lines) THEN lines[i + 1].prev
                                                ELSE Genesis)

RECURSIVE VerifyLoop(_, _, _)
\* the for loop of verifyChain(): i is 1-based, so a failure names line i
VerifyLoop(lines, i, expectedPrevHash) ==
    IF i > Len(lines) THEN ChainOk
    ELSE IF ~Parses(lines[i])
         THEN [valid |-> FALSE, line |-> i, error |-> "Invalid JSON"]
    ELSE IF JSONparse(lines[i]).prev # expectedPrevHash
         THEN [valid |-> FALSE, line |-> i, error |-> "Chain broken"]
    ELSE VerifyLoop(lines, i + 1, sha256(lines[i]))

\* verifyChain(), were expectedPrevHash to start at the first record's own
\* prev_hash instead of the genesis value
verifyChainNoGenesis(f) ==
    IF ~existsSync(f) \/ ReadLines(f) = <<>> THEN ChainOk
    ELSE VerifyLoop(ReadLines(f), 1, ReadLines(f)[1].prev)

verifyChain(f) ==
    IF ~existsSync(f) THEN ChainOk
    ELSE VerifyLoop(ReadLines(f), 1, Genesis)

\* loadAcceptances(), were the existsSync test left out: readFileSync of a
\* file that does not exist throws
loadAcceptancesNoExistsTest(f) ==
    IF ~existsSync(f) THEN [threw |-> TRUE, list |-> <<>>]
    ELSE LET lines == ReadLines(f)
         IN  IF \E i \in 1..Len(lines) : ~Parses(lines[i])
             THEN [threw |-> TRUE, list |-> <<>>]
             ELSE [threw |-> FALSE,
                   list  |-> [i \in 1..Len(lines) |-> JSONparse(lines[i])]]

\* lines.map((line) => JSON.parse(line)): one line that does not parse makes
\* the whole call throw
loadAcceptances(f) ==
    IF ~existsSync(f) THEN [threw |-> FALSE, list |-> <<>>]
    ELSE LET lines == ReadLines(f)
         IN  IF \E i \in 1..Len(lines) : ~Parses(lines[i])
             THEN [threw |-> TRUE, list |-> <<>>]
             ELSE [threw |-> FALSE,
                   list  |-> [i \in 1..Len(lines) |-> JSONparse(lines[i])]]

\* new Date(acceptance.expires_at) < now
IsExpired(a, t) == a.exp < t

\* acceptances.find((a) => a.id === findingId): the first match, or none
Find(list, findingId) ==
    IF \E i \in 1..Len(list) : list[i].id = findingId
    THEN list[CHOOSE i \in 1..Len(list) :
                 /\ list[i].id = findingId
                 /\ \A j \in 1..(i - 1) : list[j].id # findingId]
    ELSE NoRec

\* getAcceptance(), were the expiry test left out
getAcceptanceNoExpiry(f, t, findingId) ==
    LET loaded == loadAcceptances(f)
    IN  IF loaded.threw THEN [threw |-> TRUE, rec |-> NoRec]
        ELSE [threw |-> FALSE, rec |-> Find(loaded.list, findingId)]

getAcceptance(f, t, findingId) ==
    LET loaded == loadAcceptances(f)
        acceptance == Find(loaded.list, findingId)
    IN  IF loaded.threw THEN [threw |-> TRUE, rec |-> NoRec]
        ELSE IF acceptance = NoRec THEN [threw |-> FALSE, rec |-> NoRec]
        ELSE IF IsExpired(acceptance, t) THEN [threw |-> FALSE, rec |-> NoRec]
        ELSE [threw |-> FALSE, rec |-> acceptance]

EmptyMap == [x \in {} |-> NoRec]

\* byId.set(acceptance.id, acceptance)
MapSet(m, k, v) == [x \in DOMAIN m \cup {k} |-> IF x = k THEN v ELSE m[x]]

RECURSIVE SummaryLoop(_, _, _, _)
\* the for loop of getSummary()
SummaryLoop(list, i, t, acc) ==
    IF i > Len(list) THEN acc
    ELSE IF IsExpired(list[i], t)
         THEN SummaryLoop(list, i + 1, t, [acc EXCEPT !.expired = @ + 1])
         ELSE SummaryLoop(list, i + 1, t,
                          [acc EXCEPT !.active = @ + 1,
                                      !.byId = MapSet(@, list[i].id, list[i])])

getSummary(f, t) ==
    LET loaded == loadAcceptances(f)
    IN  IF loaded.threw
        THEN [threw |-> TRUE, total |-> 0, active |-> 0, expired |-> 0,
              byId |-> EmptyMap]
        ELSE SummaryLoop(loaded.list, 1, t,
                         [threw |-> FALSE, total |-> Len(loaded.list),
                          active |-> 0, expired |-> 0, byId |-> EmptyMap])

\* ------------------------------------------------------------------ state

NoLoc == [id |-> "", days |-> 0, cli |-> FALSE, rec |-> NoRec]

Monitors == {"audit", "config", "transcripts"}

\* new SecurityWatcher() with no options given
DefaultOptions ==
    [killOn |-> "off", maxKillsPerHour |-> 3, startupCooldown |-> 60,
     outputFile |-> FALSE, restartAfter |-> 0]

\* a host with none of the monitored sources and no openclaw account
NoSources == [audit |-> FALSE, config |-> "missing", agents |-> "missing", uid |-> ""]

NoCall == [stage |-> "idle", type |-> "", severity |-> "", message |-> "",
           timestamp |-> 0]

\* the events file before anything was written to it
NoEvents == [exists |-> FALSE, lines |-> <<>>]

\* the watcher right after new SecurityWatcher(o), on host e with audit log l
Constructed(o, e, l) ==
    /\ options = o
    /\ killCount = 0
    /\ killCountResetTime = 0
    /\ startTime = 0
    /\ running = FALSE
    /\ openclawUid = ""
    /\ clock = 0
    /\ env = e
    /\ auditLog = l
    /\ runs = <<>>
    /\ call = [m \in Monitors |-> NoCall]
    /\ turn = "none"
    /\ emitted = 0
    /\ acts = <<>>
    /\ win = [qual |-> 0, kills |-> 0, by |-> ""]
    /\ timers = <<>>
    /\ restarts = <<>>
    /\ settling = <<>>
    /\ burst = 0
    /\ eventsFile = NoEvents
    /\ notices = [i \in 1..MaxStarts |-> 0]

Init ==
    /\ file \in {Missing, EmptyFile}
    /\ now = 0
    /\ pc = [p \in Procs |-> "idle"]
    /\ loc = [p \in Procs |-> NoLoc]
    /\ edits = 0
    /\ op = [name |-> "init", id |-> "", res |-> 0]
    /\ Constructed(DefaultOptions, NoSources, <<>>)

\* a step of the ledger: it leaves the watcher alone
Did(n, id, res) == op' = [name |-> n, id |-> id, res |-> res] /\ UNCHANGED wvars

AllIdle == \A p \in Procs : pc[p] = "idle"

\* actor p may start a call; seq: calls are made one after another
Free(p, seq) == pc[p] = "idle" /\ (seq => AllIdle)

\* room left in the bounded file
Room(f) == Len(f.lines) < MaxLines

\* ------------------------------------------------- read operations (one read)

LoadAll(p, seq) ==
    /\ Free(p, seq)
    /\ Did("loadAcceptances", "", loadAcceptances(file))
    /\ UNCHANGED <<file, now, pc, loc, edits>>

Get(p, findingId, seq) ==
    /\ Free(p, seq)
    /\ Did("getAcceptance", findingId, getAcceptance(file, now, findingId))
    /\ UNCHANGED <<file, now, pc, loc, edits>>

Verify(p, seq) ==
    /\ Free(p, seq)
    /\ Did("verifyChain", "", verifyChain(file))
    /\ UNCHANGED <<file, now, pc, loc, edits>>

Summary(p, seq) ==
    /\ Free(p, seq)
    /\ Did("getSummary", "", getSummary(file, now))
    /\ UNCHANGED <<file, now, pc, loc, edits>>

\* ------------------------------------------------- initialize() and accept()

\* initialize(), called on its own: the existsSync test
Initialize(p, seq) ==
    /\ Free(p, seq)
    /\ IF existsSync(file)
       THEN UNCHANGED <<pc, loc>>
       ELSE /\ pc' = [pc EXCEPT ![p] = "init_write"]
            /\ loc' = [loc EXCEPT ![p] = NoLoc]
    /\ Did("initialize", "", existsSync(file))
    /\ UNCHANGED <<file, now, edits>>

\* accept(): entry, and the existsSync test of the initialize() it calls
EnterAccept(p, findingId, days, cli) ==
    /\ pc' = [pc EXCEPT ![p] = IF existsSync(file) THEN "acc_read"
                                                  ELSE "init_write"]
    /\ loc' = [loc EXCEPT ![p] = [id |-> findingId, days |-> days,
                                  cli |-> cli, rec |-> NoRec]]

Accept(p, findingId, days, seq) ==
    /\ Free(p, seq)
    /\ Room(file)
    /\ EnterAccept(p, findingId, days, FALSE)
    /\ Did("accept", findingId, existsSync(file))
    /\ UNCHANGED <<file, now, edits>>

\* initialize(): writeFileSync(this.filePath, '')
InitWrite(p) ==
    /\ pc[p] = "init_write"
    /\ file' = writeFileSync(file)
    /\ pc' = [pc EXCEPT ![p] = IF loc[p].id = "" THEN "idle" ELSE "acc_read"]
    /\ Did("writeFileSync", loc[p].id, 0)
    /\ UNCHANGED <<now, loc, edits>>

\* accept(): read the lines, compute prevHash, build the record
AccRead(p) ==
    /\ pc[p] = "acc_read"
    /\ LET lines == IF existsSync(file) THEN ReadLines(file) ELSE <<>>
           prevHash == IF Len(lines) > 0 THEN sha256(lines[Len(lines)])
                                         ELSE Genesis
           acceptance == Serialize(loc[p].id, now + loc[p].days, prevHash)
       IN  /\ loc' = [loc EXCEPT ![p].rec = acceptance]
           /\ Did("readFileSync", loc[p].id, acceptance)
    /\ pc' = [pc EXCEPT ![p] = "acc_append"]
    /\ UNCHANGED <<file, now, edits>>

\* accept(): appendFileSync(this.filePath, JSON.stringify(acceptance) + '\n')
AccAppend(p) ==
    /\ pc[p] = "acc_append"
    /\ file' = appendFileSync(file, loc[p].rec)
    /\ pc' = [pc EXCEPT ![p] = "idle"]
    /\ loc' = [loc EXCEPT ![p] = NoLoc]
    /\ Did("appendFileSync", loc[p].id, [rec |-> loc[p].rec, cli |-> loc[p].cli])
    /\ UNCHANGED <<now, edits>>

\* runAccept(), were it to go on to accept() whatever verifyChain() returned
RunAcceptUnchecked(p, findingId, days, seq) ==
    /\ Free(p, seq)
    /\ Room(file)
    /\ pc' = [pc EXCEPT ![p] = "acc_enter"]
    /\ loc' = [loc EXCEPT ![p] = [id |-> findingId, days |-> days,
                                  cli |-> TRUE, rec |-> NoRec]]
    /\ Did("runAccept", findingId, verifyChain(file))
    /\ UNCHANGED <<file, now, edits>>

\* runAccept() of the command line: verifyChain() first, process.exit(1)
\* when the chain is broken, accept() otherwise
RunAccept(p, findingId, days, seq) ==
    /\ Free(p, seq)
    /\ Room(file)
    /\ LET chainStatus == verifyChain(file)
       IN  /\ IF ~chainStatus.valid
              THEN UNCHANGED <<pc, loc>>
              ELSE /\ pc' = [pc EXCEPT ![p] = "acc_enter"]
                   /\ loc' = [loc EXCEPT ![p] = [id |-> findingId, days |-> days,
                                                 cli |-> TRUE, rec |-> NoRec]]
           /\ Did("runAccept", findingId, chainStatus)
    /\ UNCHANGED <<file, now, edits>>

\* runAccept(): the call of manager.accept() after a passed check
AccEnter(p) ==
    /\ pc[p] = "acc_enter"
    /\ EnterAccept(p, loc[p].id, loc[p].days, TRUE)
    /\ Did("accept", loc[p].id, existsSync(file))
    /\ UNCHANGED <<file, now, edits>>

\* ------------------------------------------------------------- environment

Tick ==
    /\ AllIdle
    /\ now < MaxTime
    /\ now' = now + 1
    /\ Did("tick", "", 0)
    /\ UNCHANGED <<file, pc, loc, edits>>

\* what an editor with write access may put in place of raw line i
Altered(f, i) ==
    LET l == f.lines[i]
    IN  IF l.kind = "rec"
        THEN {[l EXCEPT !.pad = ~@], [l EXCEPT !.exp = 0],
              [l EXCEPT !.prev = IF i > 2 THEN sha256(f.lines[i - 2]) ELSE Genesis],
              Garbage, EmptyLine}
        ELSE {Garbage, EmptyLine}

\* an out-of-band edit of one raw line, the others left as they are
Tamper(i, l) ==
    /\ AllIdle
    /\ edits < MaxEdits
    /\ i \in 1..Len(file.lines)
    /\ l \in Altered(file, i) \ {file.lines[i]}
    /\ l = EmptyLine => (i < Len(file.lines) \/ file.nl)
    /\ file' = [file EXCEPT !.lines[i] = l]
    /\ edits' = edits + 1
    /\ Did("tamper", "", i)
    /\ UNCHANGED <<now, pc, loc>>

\* an out-of-band edit that removes the newline that ends the file
StripNewline ==
    /\ AllIdle
    /\ edits < MaxEdits
    /\ file.lines # <<>>
    /\ file.nl
    /\ file.lines[Len(file.lines)].kind # "empty"
    /\ file' = [file EXCEPT !.nl = FALSE]
    /\ edits' = edits + 1
    /\ Did("stripNewline", "", 0)
    /\ UNCHANGED <<now, pc, loc>>

\* ---------------------------------------------------------- specifications

\* the steps inside a call
Step(p) ==
    \/ InitWrite(p)
    \/ AccEnter(p)
    \/ AccRead(p)
    \/ AccAppend(p)

\* the calls an idle actor may make
Call(p, seq) ==
    \/ LoadAll(p, seq)
    \/ Verify(p, seq)
    \/ Summary(p, seq)
    \/ Initialize(p, seq)
    \/ \E findingId \in FindingIds : Get(p, findingId, seq)
    \/ \E findingId \in FindingIds, days \in Days : Accept(p, findingId, days, seq)
    \/ \E findingId \in FindingIds, days \in Days : RunAccept(p, findingId, days, seq)

Edit ==
    \/ \E i \in 1..Len(file.lines) : \E l \in Altered(file, i) : Tamper(i, l)
    \/ StripNewline

\* calls made one after another, the file open to out-of-band edits between them
Next ==
    \/ \E p \in Procs : Step(p)
    \/ \E p \in Procs : Call(p, TRUE)
    \/ Edit
    \/ Tick

Spec == Init /\ [][Next]_vars

\* calls of concurrent actors, interleaved at each file-system call
ConcNext ==
    \/ \E p \in Procs : Step(p)
    \/ \E p \in Procs : Call(p, FALSE)

ConcSpec == Init /\ [][ConcNext]_vars

\* ------------------------------------------- an append seen half-way through

\* the first bytes of line l, without its end and its newline: never valid JSON
Partial(l) ==
    [kind |-> "bad", id |-> "", exp |-> 0, prev |-> Genesis,
     pad |-> FALSE, txt |-> <<l>>]

\* accept(): appendFileSync, the file as a reader finds it when only the
\* first bytes of the record have reached it
AccAppendPart(p) ==
    /\ pc[p] = "acc_append"
    /\ file.nl
    /\ file' = [exists |-> TRUE, lines |-> Append(file.lines, Partial(loc[p].rec)),
                nl |-> FALSE]
    /\ pc' = [pc EXCEPT ![p] = "acc_rest"]
    /\ Did("appendFileSync", loc[p].id, "partial")
    /\ UNCHANGED <<now, loc, edits>>

\* accept(): appendFileSync, the rest of the record and its newline
AccAppendRest(p) ==
    /\ pc[p] = "acc_rest"
    /\ file.lines # <<>>
    /\ file.lines[Len(file.lines)] = Partial(loc[p].rec)
    /\ file' = [file EXCEPT !.lines[Len(file.lines)] = loc[p].rec, !.nl = TRUE]
    /\ pc' = [pc EXCEPT ![p] = "idle"]
    /\ loc' = [loc EXCEPT ![p] = NoLoc]
    /\ Did("appendFileSync", loc[p].id, [rec |-> loc[p].rec, cli |-> loc[p].cli])
    /\ UNCHANGED <<now, edits>>

\* one actor accepts, the other reads between any two of its file-system calls
TornNext ==
    \/ \E p \in Procs : InitWrite(p)
    \/ \E p \in Procs : AccRead(p)
    \/ \E p \in Procs : AccAppendPart(p)
    \/ \E p \in Procs : AccAppendRest(p)
    \/ \E findingId \in FindingIds, days \in Days :
           Accept("p1", findingId, days, FALSE)
    \/ LoadAll("p2", FALSE)
    \/ Verify("p2", FALSE)
    \/ Summary("p2", FALSE)
    \/ \E findingId \in FindingIds : Get("p2", findingId, FALSE)

TornSpec == Init /\ [][TornNext]_vars

\* ------------------------------------------------------------ claim helpers

\* the records of the ledger: its non-blank lines, as the code reads them
Records(f) == IF existsSync(f) THEN ReadLines(f) ELSE <<>>

AllParse(lines) == \A i \in 1..Len(lines) : Parses(lines[i])

\* every later line commits to the line before it
Linked(lines) ==
    \A i \in 1..(Len(lines) - 1) : lines[i + 1].prev = sha256(lines[i])

StartsAtGenesis(lines) == lines # <<>> => lines[1].prev = Genesis

\* index of the first line that does not parse (0: none)
FirstBad(lines) ==
    IF AllParse(lines) THEN 0
    ELSE CHOOSE i \in 1..Len(lines) :
            /\ ~Parses(lines[i])
            /\ \A j \in 1..(i - 1) : Parses(lines[j])

\* the last record with this id that has not expired at t (NoRec: none)
MostRecentActive(lines, t, findingId) ==
    LET hits == {i \in 1..Len(lines) :
                    /\ Parses(lines[i])
                    /\ lines[i].id = findingId
                    /\ ~(lines[i].exp < t)}
    IN  IF hits = {} THEN NoRec
        ELSE JSONparse(lines[CHOOSE i \in hits : \A j \in hits : j <= i])

\* ---------------------------------------------------------------- claims

C2_AcceptKeepsChainValid ==
    [][(op'.name = "appendFileSync" /\ verifyChain(file).valid)
          => /\ verifyChain(file').valid
             /\ op'.res.rec.prev =
                    IF Records(file) = <<>> THEN Genesis
                    ELSE sha256(Records(file)[Len(Records(file))])]_vars

\* C3: the accept command that finds the chain broken ends there, with the
\* file as it was and accept() not entered; and the accept() of an accept
\* command only ever appends to a ledger whose chain is valid.
C3_BrokenChainIsNeverExtended ==
    [][/\ (op'.name = "runAccept" /\ ~verifyChain(file).valid)
            => (~op'.res.valid /\ file' = file /\ pc' = pc /\ loc' = loc)
       /\ (op'.name = "appendFileSync" /\ op'.res.cli)
            => verifyChain(file).valid]_vars

\* C3 witness: an accept command has been refused on a broken ledger.
C3_Witness ==
    /\ op.name = "runAccept"
    /\ ~op.res.valid
    /\ AllIdle
    /\ Len(file.lines) >= 2

\* C4: getAcceptance() never returns a record whose expiration is earlier
\* than the current time; what it returns is a record of the ledger with
\* the id asked for.
C4_GetNeverReturnsExpired ==
    (op.name = "getAcceptance" /\ op.res.rec # NoRec)
        => /\ ~(op.res.rec.exp < now)
           /\ op.res.rec.id = op.id
           /\ \E i \in 1..Len(Records(file)) :
                  JSONparse(Records(file)[i]) = op.res.rec

\* C4 witness: getAcceptance() has returned none for an id whose only
\* record in the ledger has expired.
C4_Witness ==
    /\ op.name = "getAcceptance"
    /\ ~op.res.threw
    /\ op.res.rec = NoRec
    /\ \E i \in 1..Len(Records(file)) :
           Records(file)[i].id = op.id /\ Records(file)[i].exp < now

\* C5: on a ledger written by accept() calls only, getAcceptance() returns
\* the last record with that id that has not expired, and none only when
\* there is no such record.
C5_GetReturnsMostRecentActive ==
    (op.name = "getAcceptance" /\ edits = 0)
        => op.res.rec = MostRecentActive(Records(file), now, op.id)

\* C6: getSummary() returns the number of records as total, active and
\* expired adding up to it, and for each id with a record that has not
\* expired the last such record.
C6_SummaryCountsAndMap ==
    op.name = "getSummary"
        => LET lines == Records(file)
               recs == {i \in 1..Len(lines) : Parses(lines[i])}
               activeIds == {lines[i].id : i \in {j \in recs : ~(lines[j].exp < now)}}
           IN  /\ ~op.res.threw
               /\ op.res.total = Cardinality(recs)
               /\ op.res.active + op.res.expired = op.res.total
               /\ DOMAIN op.res.byId = activeIds
               /\ \A id \in activeIds :
                      op.res.byId[id] = MostRecentActive(lines, now, id)

\* C7: loadAcceptances() returns every well-formed record of the ledger in
\* file order, whatever malformed lines stand between them.
C7_LoadSkipsMalformedLines ==
    op.name = "loadAcceptances"
        => /\ ~op.res.threw
           /\ op.res.list = [i \in 1..Len(SelectSeq(Records(file), Parses))
                                |-> JSONparse(SelectSeq(Records(file), Parses)[i])]

\* C8: verifyChain() on a ledger with a line that does not parse reports the
\* chain broken, at that line or before it, and at that line as invalid JSON
\* when the lines before it are well linked.
C8_MalformedLineBreaksChain ==
    (op.name = "verifyChain" /\ ~AllParse(Records(file)))
        => LET lines == Records(file)
               bad == FirstBad(lines)
               before == SubSeq(lines, 1, bad - 1)
           IN  /\ ~op.res.valid
               /\ op.res.line >= 1
               /\ op.res.line <= bad
               /\ (StartsAtGenesis(before) /\ Linked(before))
                     => (op.res.line = bad /\ op.res.error = "Invalid JSON")

\* C8 witness: verifyChain() has reported line 2 of three, a malformed line
\* between two records of which the later commits to the earlier.
C8_Witness ==
    /\ op.name = "verifyChain"
    /\ Len(Records(file)) = 3
    /\ Parses(Records(file)[1])
    /\ ~Parses(Records(file)[2])
    /\ Parses(Records(file)[3])
    /\ Records(file)[1].prev = Genesis
    /\ Records(file)[3].prev = sha256(Records(file)[1])
    /\ op.res.line = 2

RECURSIVE StartsWith(_, _)
\* the text of line x begins with the text of line y
StartsWith(x, y) ==
    \/ x = y
    \/ x.txt # <<>> /\ StartsWith(x.txt[1], y)

\* the bytes of f are the first bytes of g
BytePrefix(f, g) ==
    LET n == Len(f.lines)
    IN  /\ f.exists => g.exists
        /\ n <= Len(g.lines)
        /\ \A i \in 1..(n - 1) : g.lines[i] = f.lines[i]
        /\ n > 0 =>
              IF f.nl THEN g.lines[n] = f.lines[n] /\ (Len(g.lines) > n \/ g.nl)
              ELSE StartsWith(g.lines[n], f.lines[n])

\* C9: every step of every ledger operation, under any interleaving, leaves
\* the bytes already in the file in place: the content before the step is a
\* prefix of the content after it.
C9_FileOnlyGrows == [][BytePrefix(file, file')]_vars

\* the last raw line of f that is not blank (0: none)
LastNonEmpty(f) ==
    IF \A i \in 1..Len(f.lines) : ~NonEmpty(f.lines[i]) THEN 0
    ELSE CHOOSE i \in 1..Len(f.lines) :
            /\ NonEmpty(f.lines[i])
            /\ \A j \in (i + 1)..Len(f.lines) : ~NonEmpty(f.lines[j])

Severities == {"info", "warning", "high", "critical"}

\* if (now - this.killCountResetTime > 3600000)
HourMs == 3600000

\* the modelled clock advances in half hours
TickMs == HourMs \div 2

Ledger == <<file, now, pc, loc, edits>>

\* no ledger call is under way
LedgerIdle ==
    /\ file = Missing
    /\ now = 0
    /\ pc = [p \in Procs |-> "idle"]
    /\ loc = [p \in Procs |-> NoLoc]
    /\ edits = 0
    /\ op = [name |-> "init", id |-> "", res |-> 0]

\* a step of the watcher: it leaves the ledger alone
WDid(n, id, res) == op' = [name |-> n, id |-> id, res |-> res] /\ UNCHANGED Ledger

\* run to completion: task m proceeds when it is on the thread, or when the
\* thread is free and its continuation is the next thing scheduled
Runnable(m) == turn \in {m, "none"}

\* some instance of monitor m is alive
Live(m) == \E i \in DOMAIN runs : runs[i][m] = "live"

\* a callback of monitor m calls this.emitEvent(event): the call starts on a
\* free thread and holds it
Enter(m, type, severity, message) ==
    /\ turn = "none"
    /\ call[m].stage = "idle"
    /\ emitted < MaxEvents
    /\ call' = [call EXCEPT ![m] = [stage |-> "emit", type |-> type,
                                    severity |-> severity, message |-> message,
                                    timestamp |-> clock]]
    /\ turn' = m
    /\ emitted' = emitted + 1

\* the emitEvent call of m runs off its end: the thread is free again
Return(m) ==
    /\ call' = [call EXCEPT ![m] = NoCall]
    /\ turn' = "none"

InCooldownSinceReset(o, start, t) ==
    (t - killCountResetTime) < 1000 * o.startupCooldown

\* elapsedSeconds < (this.options.startupCooldown ?? 60), elapsedSeconds being
\* (Date.now() - this.startTime) / 1000, a division without rounding
InCooldown(o, start, t) == (t - start) < 1000 * o.startupCooldown

ShouldKillIgnoresThreshold(killThreshold, severity) ==
    severity \in {"critical", "high"}

\* const shouldKill = ...
ShouldKill(killThreshold, severity) ==
    \/ killThreshold = "critical" /\ severity = "critical"
    \/ killThreshold = "high" /\ severity \in {"critical", "high"}

\* now - this.killCountResetTime > 3600000
WindowOver(t, reset) == t - reset > HourMs

RateLimitedOffByOne(count, o) == count > o.maxKillsPerHour

\* this.killCount >= (this.options.maxKillsPerHour ?? 3)
RateLimited(count, o) == count >= o.maxKillsPerHour

\* the event's severity is at or above the threshold (what the operator reads
\* in --kill-on), kept apart from ShouldKill to count the qualifying events
Rank(severity) ==
    CASE severity = "info" -> 0
      [] severity = "warning" -> 1
      [] severity = "high" -> 2
      [] severity = "critical" -> 3

Meets(severity, threshold) ==
    threshold # "off" /\ Rank(severity) >= Rank(threshold)

\* emitEvent, its console line; the append to the output file comes next
\* when one is configured, checkKillCondition when none is
EmitEvent(m) ==
    /\ call[m].stage = "emit"
    /\ Runnable(m)
    /\ call' = [call EXCEPT ![m].stage = IF options.outputFile THEN "write"
                                                              ELSE "check"]
    /\ turn' = m
    /\ WDid("emitEvent", call[m].severity, m)
    /\ UNCHANGED <<timers, restarts, settling, burst, eventsFile,
               notices>>
    /\ UNCHANGED <<options, killCount, killCountResetTime, startTime, running,
                   openclawUid, clock, env, auditLog, runs, emitted, acts, win>>

\* JSON.stringify(event) + '\n'
EventLine(c) ==
    [kind |-> "event", type |-> c.type, severity |-> c.severity,
     message |-> c.message, timestamp |-> c.timestamp]

\* watch(configDir, { recursive: true }, ...): the events file lies in
\* ~/.openclaw, so every fs.watch handle open on that directory is notified of
\* an append to it
Notified(n, r) ==
    [i \in 1..MaxStarts |->
        IF i \in DOMAIN r /\ r[i].config = "live" THEN n[i] + 1 ELSE n[i]]

\* emitEvent, were a failed append to end the call
WriteOutputAborts(m, ok) ==
    /\ call[m].stage = "write"
    /\ Runnable(m)
    /\ IF ok
       THEN /\ eventsFile' = [exists |-> TRUE,
                              lines |-> Append(eventsFile.lines, EventLine(call[m]))]
            /\ notices' = Notified(notices, runs)
            /\ call' = [call EXCEPT ![m].stage = "check"]
            /\ turn' = m
            /\ WDid("writeOutput", call[m].severity, "written")
       ELSE /\ Return(m)
            /\ WDid("writeOutput", call[m].severity, "failed")
            /\ UNCHANGED <<eventsFile, notices>>
    /\ UNCHANGED <<timers, restarts, settling, burst>>
    /\ UNCHANGED <<options, killCount, killCountResetTime, startTime, running,
                   openclawUid, clock, env, auditLog, runs, emitted, acts, win>>

\* emitEvent, the append to options.outputFile: writeFileSync(outputFile,
\* line, { flag: 'a' }) inside try { } catch { }; ok tells whether the write
\* went through
WriteOutput(m, ok) ==
    /\ call[m].stage = "write"
    /\ Runnable(m)
    /\ eventsFile' = IF ok THEN [exists |-> TRUE,
                                 lines |-> Append(eventsFile.lines,
                                                  EventLine(call[m]))]
                           ELSE eventsFile
    /\ notices' = IF ok THEN Notified(notices, runs) ELSE notices
    /\ call' = [call EXCEPT ![m].stage = "check"]
    /\ turn' = m
    /\ WDid("writeOutput", call[m].severity, IF ok THEN "written" ELSE "failed")
    /\ UNCHANGED <<timers, restarts, settling, burst>>
    /\ UNCHANGED <<options, killCount, killCountResetTime, startTime, running,
                   openclawUid, clock, env, auditLog, runs, emitted, acts, win>>

\* checkKillCondition up to its call of killGateway; handoff is the task on
\* the thread when killGateway is entered (the caller itself: async functions
\* run synchronously up to their first await of something pending)
Decide(m, handoff) ==
    /\ call[m].stage = "check"
    /\ Runnable(m)
    /\ LET severity == call[m].severity
           counted  == IF Meets(severity, options.killOn) THEN 1 ELSE 0
       IN  IF options.killOn = "off"
           THEN /\ Return(m)
                /\ WDid("checkKillCondition", severity, "disabled")
                /\ UNCHANGED <<killCount, killCountResetTime, win>>
           ELSE IF InCooldown(options, startTime, clock)
           THEN /\ Return(m)
                /\ WDid("checkKillCondition", severity, "cooldown")
                /\ win' = [win EXCEPT !.qual = @ + counted]
                /\ UNCHANGED <<killCount, killCountResetTime>>
           ELSE IF ~ShouldKill(options.killOn, severity)
           THEN /\ Return(m)
                /\ WDid("checkKillCondition", severity, "below")
                /\ win' = [win EXCEPT !.qual = @ + counted]
                /\ UNCHANGED <<killCount, killCountResetTime>>
           ELSE LET reset == WindowOver(clock, killCountResetTime)
                    count == IF reset THEN 0 ELSE killCount
                IN  /\ killCount' = count
                    /\ killCountResetTime' =
                           IF reset THEN clock ELSE killCountResetTime
                    /\ win' = IF reset THEN [qual |-> counted, kills |-> 0, by |-> ""]
                                       ELSE [win EXCEPT !.qual = @ + counted]
                    /\ IF RateLimited(count, options)
                       THEN /\ Return(m)
                            /\ WDid("checkKillCondition", severity, "ratelimited")
                       ELSE /\ call' = [call EXCEPT ![m].stage = "kill"]
                            /\ turn' = handoff
                            /\ WDid("checkKillCondition", severity, "kill")
    /\ UNCHANGED <<timers, restarts, settling, burst, eventsFile,
               notices>>
    /\ UNCHANGED <<options, startTime, running, openclawUid, clock, env,
                   auditLog, runs, emitted, acts>>

CheckKillConditionYields(m) == Decide(m, "none")

CheckKillCondition(m) == Decide(m, m)

\* killGateway, were the restart set with no delay
ScheduleNoDelay(pending, o, t, act) ==
    IF o.restartAfter # 0
    THEN Append(pending, [due |-> t, act |-> act])
    ELSE pending

\* if (this.options.restartAfter) setTimeout(..., restartAfter * 1000)
Schedule(pending, o, t, act) ==
    IF o.restartAfter # 0
    THEN Append(pending, [due |-> t + 1000 * o.restartAfter, act |-> act])
    ELSE pending

KillGatewayNoCount(m) ==
    /\ call[m].stage = "kill"
    /\ Runnable(m)
    /\ acts' = Append(acts, [at |-> clock, severity |-> call[m].severity])
    /\ win' = [win EXCEPT !.kills = @ + 1, !.by = m]
    /\ Return(m)
    /\ WDid("killGateway", call[m].severity, killCount)
    /\ timers' = Schedule(timers, options, clock, Len(acts) + 1)
    /\ UNCHANGED <<restarts, settling, burst, eventsFile,
               notices>>
    /\ UNCHANGED <<options, killCount, killCountResetTime, startTime, running,
                   openclawUid, clock, env, auditLog, runs, emitted>>

\* killGateway: this.killCount++, then the stop command (exec blocks the
\* thread until the command ends; its outcome is only reported), then the
\* restart timeout when options.restartAfter is set
KillGateway(m) ==
    /\ call[m].stage = "kill"
    /\ Runnable(m)
    /\ killCount' = killCount + 1
    /\ acts' = Append(acts, [at |-> clock, severity |-> call[m].severity])
    /\ win' = [win EXCEPT !.kills = @ + 1, !.by = m]
    /\ Return(m)
    /\ WDid("killGateway", call[m].severity, killCount + 1)
    /\ timers' = Schedule(timers, options, clock, Len(acts) + 1)
    /\ UNCHANGED <<restarts, settling, burst, eventsFile,
               notices>>
    /\ UNCHANGED <<options, killCountResetTime, startTime, running,
                   openclawUid, clock, env, auditLog, runs, emitted>>

\* the setTimeout callback of killGateway: exec('sudo systemctl start
\* openclaw'); a timeout fires once, no sooner than it is due
Restart(k) ==
    /\ turn = "none"
    /\ k \in DOMAIN timers
    /\ clock >= timers[k].due
    /\ restarts' = Append(restarts, [at |-> clock, act |-> timers[k].act])
    /\ timers' = [j \in 1..(Len(timers) - 1) |->
                     IF j < k THEN timers[j] ELSE timers[j + 1]]
    /\ WDid("restart", "", timers[k].act)
    /\ UNCHANGED <<settling, burst, eventsFile,
               notices>>
    /\ UNCHANGED <<options, killCount, killCountResetTime, startTime, running,
                   openclawUid, clock, env, auditLog, runs, call, turn, emitted,
                   acts, win>>

\* the three steps of the sink
Sink(m) ==
    \/ EmitEvent(m)
    \/ CheckKillCondition(m)
    \/ KillGateway(m)

\* WatchEvent['type'] of the events monitor m builds
EventType(m) ==
    CASE m = "audit" -> "file_access"
      [] m = "config" -> "config_change"
      [] m = "transcripts" -> "secret_detected"

\* a callback of monitor m hands a WatchEvent of any severity to emitEvent
Deliver(m, severity) ==
    /\ Live(m)
    /\ Enter(m, EventType(m), severity, "")
    /\ WDid("deliver", severity, m)
    /\ UNCHANGED <<timers, restarts, settling, burst, eventsFile,
               notices>>
    /\ UNCHANGED <<options, killCount, killCountResetTime, startTime, running,
                   openclawUid, clock, env, auditLog, runs, acts, win>>

\* time passes between two callbacks
Advance ==
    /\ turn = "none"
    /\ clock < MaxTicks * TickMs
    /\ clock' = clock + TickMs
    /\ WDid("advance", "", 0)
    /\ burst' = 0
    /\ UNCHANGED <<timers, restarts, settling, eventsFile,
               notices>>
    /\ UNCHANGED <<options, killCount, killCountResetTime, startTime, running,
                   openclawUid, env, auditLog, runs, call, turn, emitted,
                   acts, win>>

\* ------------------------------------------------------------ the lifecycle

\* what a directory monitor does with its directory: return at once when it
\* is missing, await its poll loop when watch() succeeded; a throwing watch()
\* rejects the monitor's promise (there is no try around it)
Launch(dir) ==
    CASE dir = "missing" -> "skipped"
      [] dir = "ok" -> "live"
      [] dir = "unwatchable" -> "threw"

\* start(), up to its await of Promise.all: the three monitors have run up to
\* their first await
Start ==
    /\ turn = "none"
    /\ Len(runs) < MaxStarts
    /\ running' = TRUE
    /\ startTime' = clock
    /\ openclawUid' = IF env.uid # "" THEN env.uid ELSE openclawUid
    /\ runs' = Append(runs,
                 [audit       |-> IF env.audit THEN "live" ELSE "skipped",
                  config      |-> Launch(env.config),
                  transcripts |-> Launch(env.agents),
                  pos         |-> 0,
                  promise     |-> "pending"])
    /\ WDid("start", "", Len(runs) + 1)
    /\ UNCHANGED <<timers, restarts, settling, burst, eventsFile,
               notices>>
    /\ UNCHANGED <<options, killCount, killCountResetTime, clock, env,
                   auditLog, call, turn, emitted, acts, win>>

\* stop()
Stop ==
    /\ turn = "none"
    /\ running' = FALSE
    /\ WDid("stop", "", 0)
    /\ UNCHANGED <<timers, restarts, settling, burst, eventsFile,
               notices>>
    /\ UNCHANGED <<options, killCount, killCountResetTime, startTime,
                   openclawUid, clock, env, auditLog, runs, call, turn,
                   emitted, acts, win>>

\* -------------------------------------------------------------- the monitors

DirMonitors == {"config", "transcripts"}

\* the calls of start(), in order
Starts == 1..MaxStarts

\* the setInterval callback of a directory monitor (every 1000 ms): once the
\* flag is cleared it closes the watch handle and resolves the monitor
Poll(i, m) ==
    /\ turn = "none"
    /\ i \in DOMAIN runs
    /\ runs[i][m] = "live"
    /\ ~running
    /\ runs' = [runs EXCEPT ![i][m] = "exited"]
    /\ WDid("poll", m, i)
    /\ UNCHANGED <<timers, restarts, settling, burst, eventsFile,
               notices>>
    /\ UNCHANGED <<options, killCount, killCountResetTime, startTime, running,
                   openclawUid, clock, env, auditLog, call, turn, emitted,
                   acts, win>>

\* the filenames fs.watch reports: none (null), a temp file, a lock file,
\* a config file
FileNames == {"", "openclaw.json.tmp", "gateway.lock", "openclaw.json"}

\* the suffix test, were .lock left out
IgnoredTmpOnly(filename) == filename = "openclaw.json.tmp"

\* filename.endsWith('.tmp') || filename.endsWith('.lock')
Ignored(filename) == filename \in {"openclaw.json.tmp", "gateway.lock"}

\* `Config file changed: ${filename}`
ConfigMessage(filename) ==
    CASE filename = "openclaw.json" -> "Config file changed: openclaw.json"
      [] filename = "openclaw.json.tmp" -> "Config file changed: openclaw.json.tmp"
      [] filename = "gateway.lock" -> "Config file changed: gateway.lock"
      [] filename = "antenna-events.jsonl"
             -> "Config file changed: antenna-events.jsonl"
      [] OTHER -> "Config file changed: "

\* the fs.watch callback of watchConfigChanges
FsChange(i, filename) ==
    /\ turn = "none"
    /\ i \in DOMAIN runs
    /\ runs[i].config = "live"
    /\ IF ~running \/ filename = "" \/ Ignored(filename)
       THEN /\ WDid("fsChange", filename, "ignored")
            /\ UNCHANGED <<call, turn, emitted, burst>>
       ELSE /\ Enter("config", "config_change", "warning", ConfigMessage(filename))
            /\ burst' = burst + 1
            /\ WDid("fsChange", filename, "emitted")
    /\ UNCHANGED <<timers, restarts, settling, eventsFile,
               notices>>
    /\ UNCHANGED <<options, killCount, killCountResetTime, startTime, running,
                   openclawUid, clock, env, auditLog, runs, acts, win>>

\* the fs.watch callback of watchConfigChanges, called for an append the
\* watcher itself made to ~/.openclaw/antenna-events.jsonl
OwnChange(i) ==
    /\ turn = "none"
    /\ i \in DOMAIN runs
    /\ runs[i].config = "live"
    /\ notices[i] > 0
    /\ notices' = [notices EXCEPT ![i] = @ - 1]
    /\ IF ~running \/ Ignored("antenna-events.jsonl")
       THEN /\ WDid("ownChange", "antenna-events.jsonl", "ignored")
            /\ UNCHANGED <<call, turn, emitted, burst>>
       ELSE /\ Enter("config", "config_change", "warning",
                     ConfigMessage("antenna-events.jsonl"))
            /\ burst' = burst + 1
            /\ WDid("ownChange", "antenna-events.jsonl", "emitted")
    /\ UNCHANGED <<timers, restarts, settling, eventsFile>>
    /\ UNCHANGED <<options, killCount, killCountResetTime, startTime, running,
                   openclawUid, clock, env, auditLog, runs, acts, win>>

\* the filenames fs.watch reports under ~/.openclaw/agents: none (null), a
\* transcript, another file
SessionFiles == {"", "session.jsonl", "notes.txt"}

\* filename.endsWith('.jsonl')
IsTranscript(filename) == filename = "session.jsonl"

\* the fs.watch callback of watchTranscripts, up to its await of the 100 ms
\* timeout; secret tells whether the content just appended to the file holds
\* a secret-like pattern
TranscriptChange(i, filename, secret) ==
    /\ turn = "none"
    /\ i \in DOMAIN runs
    /\ runs[i].transcripts = "live"
    /\ IF ~running \/ filename = "" \/ ~IsTranscript(filename)
       THEN /\ WDid("transcriptChange", filename, "ignored")
            /\ UNCHANGED settling
       ELSE /\ Len(settling) < MaxSettling
            /\ settling' = Append(settling, [filename |-> filename,
                                             secret |-> secret])
            /\ WDid("transcriptChange", filename, "waiting")
    /\ UNCHANGED <<timers, restarts, burst, eventsFile,
               notices>>
    /\ UNCHANGED <<options, killCount, killCountResetTime, startTime, running,
                   openclawUid, clock, env, auditLog, runs, call, turn, emitted,
                   acts, win>>

\* the rest of that callback, once the timeout has resolved: the scan is a
\* comment, the callback ends
TranscriptScan(k) ==
    /\ turn = "none"
    /\ k \in DOMAIN settling
    /\ settling' = [j \in 1..(Len(settling) - 1) |->
                       IF j < k THEN settling[j] ELSE settling[j + 1]]
    /\ WDid("transcriptScan", settling[k].filename,
            IF settling[k].secret THEN "secret" ELSE "clean")
    /\ UNCHANGED <<timers, restarts, burst, eventsFile,
               notices>>
    /\ UNCHANGED <<options, killCount, killCountResetTime, startTime, running,
                   openclawUid, clock, env, auditLog, runs, call, turn, emitted,
                   acts, win>>

\* ---- the audit log: a line is a sequence of name=value tokens, separated by
\* blanks; names are spelled out because the code searches the text

Type == <<"t", "y", "p", "e">>
Auid == <<"a", "u", "i", "d">>
Uid  == <<"u", "i", "d">>
Euid == <<"e", "u", "i", "d">>
Key  == <<"k", "e", "y">>

Token(name, value, quoted) == [name |-> name, value |-> value, quoted |-> quoted]

\* values made of decimal digits only
Digits == {"0", "1000"}

\* values that start with antenna_
AntennaTags ==
    {"antenna_ssh", "antenna_aws", "antenna_gcloud", "antenna_gpg",
     "antenna_config", "antenna_creds"}

\* s ends with x
EndsWith(s, x) ==
    /\ Len(s) >= Len(x)
    /\ SubSeq(s, Len(s) - Len(x) + 1, Len(s)) = x

\* line.match(re)[1], hits being the tokens the regular expression matches:
\* the capture of the leftmost one, "" (undefined) without a match
Capture(line, hits) ==
    IF hits = {} THEN ""
    ELSE line[CHOOSE i \in hits : \A j \in hits : i <= j].value

\* /auid=(\d+)/ : anywhere in the text
HitAuid(token, i) ==
    EndsWith(token.name, Auid) /\ ~token.quoted /\ token.value \in Digits

HitUidUnanchored(token, i) ==
    EndsWith(token.name, Uid) /\ ~token.quoted /\ token.value \in Digits

\* /\suid=(\d+)/ : uid= right after white space
HitUid(token, i) ==
    i > 1 /\ token.name = Uid /\ ~token.quoted /\ token.value \in Digits

\* /key="([^"]+)"/
HitKey(token, i) ==
    EndsWith(token.name, Key) /\ token.quoted /\ token.value # ""

\* line.includes('key="antenna_')
includesTag(line) ==
    \E i \in DOMAIN line :
        /\ EndsWith(line[i].name, Key)
        /\ line[i].quoted
        /\ line[i].value \in AntennaTags

\* parseAuditLine: the fields the watcher goes on to use
parseAuditLine(line) ==
    [key  |-> Capture(line, {i \in DOMAIN line : HitKey(line[i], i)}),
     auid |-> Capture(line, {i \in DOMAIN line : HitAuid(line[i], i)}),
     uid  |-> Capture(line, {i \in DOMAIN line : HitUid(line[i], i)})]

\* isRelevantEvent, account being this.openclawUid
isRelevantEvent(event, account) ==
    IF account = "" THEN TRUE
    ELSE event.auid = account \/ event.uid = account

\* event.key?.includes(word)
KeyIncludes(key, word) ==
    \/ key = "antenna_ssh" /\ word = "ssh"
    \/ key = "antenna_aws" /\ word = "aws"
    \/ key = "antenna_creds" /\ word = "creds"
    \/ key = "antenna_gpg" /\ word = "gpg"

\* handleAuditEvent, were an access to an SSH key given severity critical
AuditSeverityCritical(event) ==
    IF KeyIncludes(event.key, "ssh") THEN "critical"
    ELSE IF \E word \in {"aws", "creds", "gpg"} : KeyIncludes(event.key, word)
    THEN "high"
    ELSE "warning"

\* handleAuditEvent: the severity of the WatchEvent
AuditSeverity(event) ==
    IF \E word \in {"ssh", "aws", "creds", "gpg"} : KeyIncludes(event.key, word)
    THEN "high"
    ELSE "warning"

\* handleAuditEvent: the message, event.name being absent from the line
AuditMessage(event) ==
    IF KeyIncludes(event.key, "creds") \/ KeyIncludes(event.key, "gpg")
    THEN "Credential file access: unknown"
    ELSE IF KeyIncludes(event.key, "ssh") \/ KeyIncludes(event.key, "aws")
    THEN "Sensitive file access: unknown"
    ELSE "Sensitive file access detected"

\* the body of `for await (const line of rl)` in watchAuditLog, once: the
\* stream ends, or the next line is taken
AuditLine(i) ==
    /\ turn = "none"
    /\ i \in DOMAIN runs
    /\ runs[i].audit = "live"
    /\ IF runs[i].pos = Len(auditLog) \/ ~running
       THEN /\ runs' = [runs EXCEPT ![i].audit = "exited"]
            /\ WDid("auditLine", "", "exited")
            /\ UNCHANGED <<call, turn, emitted>>
       ELSE LET line  == auditLog[runs[i].pos + 1]
                event == parseAuditLine(line)
            IN  /\ runs' = [runs EXCEPT ![i].pos = @ + 1]
                /\ IF includesTag(line) /\ isRelevantEvent(event, openclawUid)
                   THEN /\ Enter("audit", "file_access", AuditSeverity(event),
                                 AuditMessage(event))
                        /\ WDid("auditLine", event.key, "emitted")
                   ELSE /\ WDid("auditLine", event.key, "skipped")
                        /\ UNCHANGED <<call, turn, emitted>>
    /\ UNCHANGED <<timers, restarts, settling, burst, eventsFile,
               notices>>
    /\ UNCHANGED <<options, killCount, killCountResetTime, startTime, running,
                   openclawUid, clock, env, auditLog, acts, win>>

\* await Promise.all([...]) in start(): rejected as soon as one monitor has
\* thrown, resolved once every monitor has returned
Settle(i) ==
    /\ turn = "none"
    /\ i \in DOMAIN runs
    /\ runs[i].promise = "pending"
    /\ IF \E m \in Monitors : runs[i][m] = "threw"
       THEN /\ runs' = [runs EXCEPT ![i].promise = "rejected"]
            /\ WDid("settle", "rejected", i)
       ELSE /\ \A m \in Monitors : runs[i][m] \in {"skipped", "exited"}
            /\ runs' = [runs EXCEPT ![i].promise = "resolved"]
            /\ WDid("settle", "resolved", i)
    /\ UNCHANGED <<timers, restarts, settling, burst, eventsFile,
               notices>>
    /\ UNCHANGED <<options, killCount, killCountResetTime, startTime, running,
                   openclawUid, clock, env, auditLog, call, turn, emitted,
                   acts, win>>

\* ---- the lines of an auditd SYSCALL record that the watcher looks at

\* type=SYSCALL [auid=a] [uid=u euid=u] [key="k"]
MkLine(a, u, k) ==
    <<Token(Type, "SYSCALL", FALSE)>>
    \o (IF a = "" THEN <<>> ELSE <<Token(Auid, a, FALSE)>>)
    \o (IF u = "" THEN <<>> ELSE <<Token(Uid, u, FALSE), Token(Euid, u, FALSE)>>)
    \o (IF k = "" THEN <<>> ELSE <<Token(Key, k, TRUE)>>)

\* <<auid, uid, key>> of the lines explored
Shapes ==
    {<<"1000", "1000", "antenna_ssh">>,
     <<"0", "1000", "antenna_config">>,
     <<"1000", "0", "antenna_ssh">>,
     <<"0", "0", "antenna_ssh">>,
     <<"", "", "antenna_config">>,
     <<"1000", "1000", "other">>,
     <<"1000", "1000", "">>}

AuditLines == {MkLine(s[1], s[2], s[3]) : s \in Shapes}

AuditLogs == UNION {[1..n -> AuditLines] : n \in 0..MaxLogLines}

\* kill on high, at most once an hour, no cooldown
StrictOptions ==
    [killOn |-> "high", maxKillsPerHour |-> 1, startupCooldown |-> 0,
     outputFile |-> FALSE, restartAfter |-> 0]

\* ------------------------------------------- the log-tail monitor on its own

TailInit ==
    /\ LedgerIdle
    /\ \E l \in AuditLogs, u \in {"", "1000"} :
           Constructed(StrictOptions,
                       [audit |-> TRUE, config |-> "missing",
                        agents |-> "missing", uid |-> u], l)

TailNext ==
    \/ Start
    \/ Stop
    \/ \E i \in Starts : AuditLine(i)
    \/ \E i \in Starts : Settle(i)
    \/ Sink("audit")

TailSpec == TailInit /\ [][TailNext]_vars

\* ------------------------------- the log-tail monitor on the installed rules

\* the -k tags of generateAuditdRules()
RuleTags ==
    {"antenna_ssh", "antenna_aws", "antenna_gcloud", "antenna_gpg",
     "antenna_config", "antenna_creds"}

\* an access by the openclaw account, caught by the rule tagged k
RuleLine(k) == MkLine("1000", "1000", k)

\* audit logs of up to two such accesses
RuleLogs == UNION {[1..n -> {RuleLine(k) : k \in RuleTags}] : n \in 1..2}

RuleInit ==
    /\ LedgerIdle
    /\ \E l \in RuleLogs, u \in {"", "1000"} :
           Constructed(StrictOptions,
                       [audit |-> TRUE, config |-> "missing",
                        agents |-> "missing", uid |-> u], l)

RuleSpec == RuleInit /\ [][TailNext]_vars

\* ---------------------------------------- the log-tail monitor, log growing

\* auditd appends a record to /var/log/audit/audit.log
AuditdWrites(line) ==
    /\ env.audit
    /\ Len(auditLog) < MaxLogLines
    /\ auditLog' = Append(auditLog, line)
    /\ WDid("auditd", "", Len(auditLog) + 1)
    /\ UNCHANGED <<timers, restarts, settling, burst, eventsFile,
               notices>>
    /\ UNCHANGED <<options, killCount, killCountResetTime, startTime, running,
                   openclawUid, clock, env, runs, call, turn, emitted, acts, win>>

\* the records auditd appends: an access by the openclaw account and one by
\* root, both caught by the SSH rule
GrowLines == {RuleLine("antenna_ssh"), MkLine("0", "0", "antenna_ssh")}

GrowInit ==
    /\ LedgerIdle
    /\ Constructed(StrictOptions,
                   [audit |-> TRUE, config |-> "missing",
                    agents |-> "missing", uid |-> "1000"], <<>>)

GrowNext ==
    \/ TailNext
    \/ \E line \in GrowLines : AuditdWrites(line)

GrowSpec == GrowInit /\ [][GrowNext]_vars

\* ------------------------------------------------------ the watcher's life

\* the hosts explored: each source present or not, each directory watchable
\* or not
Hosts ==
    {[audit |-> a, config |-> c, agents |-> g, uid |-> ""] :
        a \in BOOLEAN,
        c \in {"missing", "ok", "unwatchable"},
        g \in {"missing", "ok", "unwatchable"}}

\* an audit log of one line, an access to an SSH key
OneAccess == <<MkLine("1000", "1000", "antenna_ssh")>>

WatchInit ==
    /\ LedgerIdle
    /\ \E e \in Hosts : Constructed(StrictOptions, e, OneAccess)

WatchNext ==
    \/ Start
    \/ Stop
    \/ \E i \in Starts, m \in DirMonitors : Poll(i, m)
    \/ \E i \in Starts, filename \in FileNames : FsChange(i, filename)
    \/ \E i \in Starts, filename \in SessionFiles, secret \in BOOLEAN :
           TranscriptChange(i, filename, secret)
    \/ \E k \in 1..MaxSettling : TranscriptScan(k)
    \/ \E i \in Starts : AuditLine(i)
    \/ \E i \in Starts : Settle(i)
    \/ \E m \in Monitors : Sink(m)

WatchSpec == WatchInit /\ [][WatchNext]_vars

\* ------------------------------------------- the watcher, its tasks scheduled

\* the event loop runs every task that is ready: the setInterval callbacks of
\* the directory monitors, the next line of the readline iterator, the
\* continuation of start() after Promise.all, and the steps of a sink call
\* that holds the thread
Scheduled ==
    /\ \A i \in Starts, m \in DirMonitors : WF_vars(Poll(i, m))
    /\ \A i \in Starts : WF_vars(AuditLine(i))
    /\ \A i \in Starts : WF_vars(Settle(i))
    /\ \A m \in Monitors : WF_vars(Sink(m))

LiveSpec == WatchInit /\ [][WatchNext]_vars /\ Scheduled

\* ------------------------------------- the monitors under the two thresholds

\* --kill-on critical (the default of the command line), the cooldown over
CriticalOptions ==
    [killOn |-> "critical", maxKillsPerHour |-> 1, startupCooldown |-> 0,
     outputFile |-> FALSE, restartAfter |-> 0]

\* every source present, one tagged access in the audit log
MonitorInit ==
    /\ LedgerIdle
    /\ \E o \in {StrictOptions, CriticalOptions}, k \in RuleTags :
           Constructed(o, [audit |-> TRUE, config |-> "ok", agents |-> "ok",
                           uid |-> ""], <<RuleLine(k)>>)

MonitorSpec == MonitorInit /\ [][WatchNext]_vars

\* ------------------------------------------------- the kill switch on its own

\* the options the kill switch is explored with
KillConfigs ==
    {[killOn |-> k, maxKillsPerHour |-> n, startupCooldown |-> c,
      outputFile |-> FALSE, restartAfter |-> 0] :
        k \in {"off", "critical", "high"}, n \in {1, 2}, c \in {0, 1800}}

\* a host with the three sources present and no openclaw account
AllSources == [audit |-> TRUE, config |-> "ok", agents |-> "ok", uid |-> ""]

KillInit ==
    /\ LedgerIdle
    /\ \E o \in KillConfigs : Constructed(o, AllSources, <<>>)

\* a started watcher whose monitors hand events of every severity to the sink
KillNext ==
    \/ Start
    \/ Advance
    \/ \E m \in Monitors, severity \in Severities : Deliver(m, severity)
    \/ \E m \in Monitors : Sink(m)

KillSpec == KillInit /\ [][KillNext]_vars

\* ------------------------------------------- the sink with an output file

\* the options the output file is explored with (-o given or not)
FileConfigs ==
    {[killOn |-> k, maxKillsPerHour |-> 2, startupCooldown |-> 0,
      outputFile |-> f, restartAfter |-> 0] :
        k \in {"off", "high"}, f \in BOOLEAN}

FileInit ==
    /\ LedgerIdle
    /\ \E o \in FileConfigs : Constructed(o, AllSources, <<>>)

\* the sink of a started watcher; each append goes through or fails
FileNext ==
    \/ Start
    \/ \E m \in Monitors, severity \in Severities : Deliver(m, severity)
    \/ \E m \in Monitors : Sink(m)
    \/ \E m \in Monitors, ok \in BOOLEAN : WriteOutput(m, ok)

FileSpec == FileInit /\ [][FileNext]_vars

\* ------------------------------------------ the kill switch with a restart

\* the options the restart is explored with (--restart-after given or not)
RestartConfigs ==
    {[killOn |-> "high", maxKillsPerHour |-> n, startupCooldown |-> c,
      outputFile |-> FALSE, restartAfter |-> d] :
        n \in {1, 2}, c \in {0, 1800}, d \in {0, 1800}}

RestartInit ==
    /\ LedgerIdle
    /\ \E o \in RestartConfigs : Constructed(o, AllSources, <<>>)

RestartNext ==
    \/ KillNext
    \/ \E k \in 1..MaxEvents : Restart(k)

RestartSpec == RestartInit /\ [][RestartNext]_vars

\* ------------------------- the directory monitor, events file in its directory

\* watch --kill-on high -o ~/.openclaw/antenna-events.jsonl
LoopOptions ==
    [killOn |-> "high", maxKillsPerHour |-> 3, startupCooldown |-> 0,
     outputFile |-> TRUE, restartAfter |-> 0]

\* a host with the audit log (one access to an SSH key) and ~/.openclaw
LoopInit ==
    /\ LedgerIdle
    /\ Constructed(LoopOptions,
                   [audit |-> TRUE, config |-> "ok", agents |-> "missing",
                    uid |-> ""], OneAccess)

\* the two monitors, the sink and the notifications of the sink's appends
LoopNext ==
    \/ Start
    \/ Stop
    \/ \E i \in Starts : Poll(i, "config")
    \/ \E i \in Starts, filename \in FileNames : FsChange(i, filename)
    \/ \E i \in Starts : OwnChange(i)
    \/ \E i \in Starts : AuditLine(i)
    \/ \E i \in Starts : Settle(i)
    \/ \E m \in Monitors : Sink(m)
    \/ \E m \in Monitors, ok \in BOOLEAN : WriteOutput(m, ok)

LoopSpec == LoopInit /\ [][LoopNext]_vars

\* ------------------------------------- the kill switch, restart after an hour

\* --kill-on high --max-kills-per-hour 2 --restart-after 3600
DelayOptions ==
    [killOn |-> "high", maxKillsPerHour |-> 2, startupCooldown |-> 0,
     outputFile |-> FALSE, restartAfter |-> 3600]

DelayInit ==
    /\ LedgerIdle
    /\ Constructed(DelayOptions, AllSources, <<>>)

DelaySpec == DelayInit /\ [][RestartNext]_vars

\* ------------------------------- the log-tail monitor with a restart, stopped

\* --kill-on high --max-kills-per-hour 2 --restart-after 1800
StopOptions ==
    [killOn |-> "high", maxKillsPerHour |-> 2, startupCooldown |-> 0,
     outputFile |-> FALSE, restartAfter |-> 1800]

\* audit logs of accesses to an SSH key and to the configuration file
StopLogs ==
    {l \in RuleLogs :
        \A i \in DOMAIN l :
            l[i] \in {RuleLine("antenna_ssh"), RuleLine("antenna_config")}}

StopInit ==
    /\ LedgerIdle
    /\ \E l \in StopLogs :
           Constructed(StopOptions,
                       [audit |-> TRUE, config |-> "missing",
                        agents |-> "missing", uid |-> ""], l)

\* the monitor reads its log, the clock runs, the timers of killGateway fire
StopNext ==
    \/ TailNext
    \/ Advance
    \/ \E k \in 1..MaxEvents : Restart(k)

StopSpec == StopInit /\ [][StopNext]_vars

\* -------------------------------------------------------------- C11 .. C15

Min(a, b) == IF a <= b THEN a ELSE b

\* C11: with startup-cooldown 0, once the events of one rate-limit window are
\* processed, the number of protective actions performed in that window is
\* min(max-kills-per-hour, number of events whose severity meets the threshold)
C11_ActionsAreMinOfCapAndQualifying ==
    (options.startupCooldown = 0 /\ turn = "none")
        => win.kills = Min(options.maxKillsPerHour, win.qual)

\* threshold critical, cap 1: two critical events in one window, one action;
\* the event just processed was rate-limited
C11_Witness ==
    /\ options.killOn = "critical"
    /\ options.maxKillsPerHour = 1
    /\ options.startupCooldown = 0
    /\ win.qual = 2 /\ win.kills = 1
    /\ op.name = "checkKillCondition" /\ op.id = "critical"
    /\ op.res = "ratelimited"

\* the time elapsed since start() is less than the startup-cooldown
CoolingDown == clock - startTime < 1000 * options.startupCooldown

\* C12: while the time elapsed since start is less than the startup-cooldown,
\* no step performs a protective action or changes the kill counter or the
\* window start
C12_NoActionDuringCooldown ==
    [][CoolingDown =>
         /\ acts' = acts
         /\ killCount' = killCount
         /\ killCountResetTime' = killCountResetTime]_vars

\* a critical event was processed and ignored during the cooldown of a watcher
\* started after its window start, the cap not being reached
C12_Witness ==
    /\ op.name = "checkKillCondition" /\ op.id = "critical"
    /\ op.res = "cooldown"
    /\ options.killOn = "critical"
    /\ startTime > killCountResetTime
    /\ killCount < options.maxKillsPerHour

\* C13: every protective action was performed on an event whose severity
\* meets a configured threshold (none without a threshold; critical only for
\* threshold critical; high or critical for threshold high)
C13_ActionOnlyWhenThresholdMet ==
    \A i \in DOMAIN acts :
        /\ options.killOn # "off"
        /\ options.killOn = "critical" => acts[i].severity = "critical"
        /\ options.killOn = "high" => acts[i].severity \in {"high", "critical"}

\* threshold high: an action on a high event, after a warning event was let by
C13_Witness ==
    /\ options.killOn = "high"
    /\ \E i \in DOMAIN acts : acts[i].severity = "high"
    /\ op.name = "checkKillCondition" /\ op.id = "warning" /\ op.res = "below"

\* C14: kill decisions run one at a time: while an event is between its
\* rate-limit check and its counter increment no other event is in the sink,
\* the kill counter never exceeds max-kills-per-hour, and at most that many
\* actions are performed between two window resets
C14_KillDecisionsAreSerialized ==
    /\ \A m \in Monitors :
          call[m].stage = "kill" =>
              /\ turn = m
              /\ \A n \in Monitors \ {m} : call[n].stage = "idle"
    /\ killCount <= options.maxKillsPerHour
    /\ win.kills <= options.maxKillsPerHour

\* an event of one monitor stands between its rate-limit check and its
\* increment, the one before it in this window having come from another monitor
C14_Witness ==
    \E m \in Monitors :
        /\ call[m].stage = "kill"
        /\ win.kills = 1
        /\ win.by \in Monitors \ {m}

\* number of actions in acts[i..j]
Between(i, j) == j - i + 1

\* C15 as stated: any actions less than one hour apart number at most
\* max-kills-per-hour
C15_RollingHourCap ==
    \A i \in DOMAIN acts : \A j \in DOMAIN acts :
        (i <= j /\ acts[j].at - acts[i].at < HourMs)
            => Between(i, j) <= options.maxKillsPerHour

\* C15 (amended): any actions less than one hour apart number at most twice
\* max-kills-per-hour (the window is fixed: an hour may straddle one reset)
C15_RollingHourTwiceCap ==
    \A i \in DOMAIN acts : \A j \in DOMAIN acts :
        (i <= j /\ acts[j].at - acts[i].at < HourMs)
            => Between(i, j) <= 2 * options.maxKillsPerHour

\* cap 1: two actions half an hour apart, on both sides of a window reset
C15_Witness ==
    /\ options.maxKillsPerHour = 1
    /\ Len(acts) >= 2
    /\ acts[2].at - acts[1].at < HourMs
    /\ killCountResetTime = acts[2].at

\* -------------------------------------------------------------- C16 .. C20

\* some monitor launched by some start() is still running
SomeMonitorLive == \E i \in DOMAIN runs : \E m \in Monitors : runs[i][m] = "live"

\* C16: when stop() returns, no monitor of the watcher is still running
C16_NoMonitorRunsWhenStopReturns ==
    op.name = "stop" => ~SomeMonitorLive

\* C17: a stop() issued before start() has finished initializing cancels the
\* run: once both calls have returned, no monitor of that run is running
C17_StopBeforeStartCancelsRun ==
    [][(op.name = "stop" /\ runs = <<>> /\ runs' # <<>>)
          => \A m \in Monitors : runs'[1][m] # "live"]_vars

\* C18: the promise of a start() call settles only when every monitor that
\* call launched has terminated
C18_StartSettlesAfterItsMonitors ==
    \A i \in DOMAIN runs :
        runs[i].promise # "pending"
            => \A m \in Monitors : runs[i][m] # "live"

\* C19: a monitor that fails fatally (source missing, or watch() throwing)
\* does not make start() fail
C19_MonitorFailureDoesNotFailStart ==
    \A i \in DOMAIN runs : runs[i].promise # "rejected"

\* the value of the field spelled name on the line, "" when it has none
Field(line, name) ==
    LET at == {i \in DOMAIN line : line[i].name = name}
    IN  IF at = {} THEN ""
        ELSE line[CHOOSE i \in at : \A j \in at : i <= j].value

\* the line carries the recognized tag prefix
CarriesTag(line) == Field(line, Key) \in AntennaTags

\* the line's audit-id or uid is the resolved account (every line, when the
\* account could not be resolved)
OfAccount(line, account) ==
    \/ account = ""
    \/ Field(line, Auid) = account
    \/ Field(line, Uid) = account

\* number of tagged lines of the account among the first n lines of the log
RECURSIVE Qualifying(_, _, _)
Qualifying(log, n, account) ==
    IF n = 0 THEN 0
    ELSE Qualifying(log, n - 1, account)
         + (IF CarriesTag(log[n]) /\ OfAccount(log[n], account) THEN 1 ELSE 0)

RECURSIVE SumRead(_)
SumRead(i) ==
    IF i = 0 THEN 0
    ELSE SumRead(i - 1) + Qualifying(auditLog, runs[i].pos, openclawUid)

WatchEvent(type, severity, message, timestamp) ==
    [kind |-> "event", type |-> type, severity |-> severity,
     message |-> message, timestamp |-> timestamp]

\* a line of the events file that JSON.parse rejects
BadLine ==
    [kind |-> "bad", type |-> "", severity |-> "", message |-> "",
     timestamp |-> 0]

\* e.message.toLowerCase().includes(word), on the messages explored
includes(message, word) ==
    \/ message = "Config file changed: credentials/telegram.json"
           /\ word = "telegram"
    \/ message = "Config file changed: gateway.yaml" /\ word = "gateway"

\* acceptance.id.startsWith(prefix), on the ids explored
startsWith(id, prefix) ==
    \/ id = "CHAN-001" /\ prefix = "CHAN-"
    \/ id = "TOOL-002" /\ prefix = "TOOL-"
    \/ id = "NET-003" /\ prefix = "NET-"

\* events.some(...)
hasChannelEvent(events) ==
    \E i \in DOMAIN events :
        \E word \in {"telegram", "discord", "whatsapp"} :
            includes(events[i].message, word)

hasFileAccess(events) == \E i \in DOMAIN events : events[i].type = "file_access"

hasSecretDetected(events) ==
    \E i \in DOMAIN events : events[i].type = "secret_detected"

hasNetworkEvent(events) ==
    \E i \in DOMAIN events :
        \E word \in {"gateway", "network"} : includes(events[i].message, word)

\* findContributingRisks, the body of its loop: three tests one after the
\* other, a later one overwriting what an earlier one set ("" is null)
howContributed(acceptance, events) ==
    IF startsWith(acceptance.id, "NET-") /\ hasNetworkEvent(events)
    THEN "Network exposure acceptance may have allowed remote access"
    ELSE IF startsWith(acceptance.id, "TOOL-") /\ hasFileAccess(events)
    THEN "Tool/sandbox acceptance may have allowed file system access"
    ELSE IF startsWith(acceptance.id, "CHAN-") /\ hasChannelEvent(events)
    THEN "Channel policy acceptance may have allowed unauthorized access"
    ELSE ""

RECURSIVE ContributionLoop(_, _, _, _)
\* the for loop of findContributingRisks
ContributionLoop(events, acceptances, i, contributions) ==
    IF i > Len(acceptances) THEN contributions
    ELSE LET how == howContributed(acceptances[i], events)
         IN  ContributionLoop(events, acceptances, i + 1,
                 IF how # ""
                 THEN Append(contributions, [acceptance |-> acceptances[i],
                                             howContributed |-> how])
                 ELSE contributions)

findContributingRisks(events, acceptances) ==
    ContributionLoop(events, acceptances, 1, <<>>)

\* generateRecommendations: [...new Set(recommendations)], as a set
generateRecommendations(events, contributions) ==
    (IF hasFileAccess(events)
     THEN {"Enable sandbox mode for agents",
           "Add sensitive paths to exec blocked paths"}
     ELSE {})
    \cup (IF hasSecretDetected(events)
          THEN {"Rotate any exposed credentials immediately",
                "Enable log redaction"}
          ELSE {})
    \cup (IF \E i \in DOMAIN contributions :
                startsWith(contributions[i].acceptance.id, "CHAN-")
          THEN {"Restrict channel to allowlist"} ELSE {})
    \cup (IF \E i \in DOMAIN contributions :
                startsWith(contributions[i].acceptance.id, "TOOL-")
          THEN {"Re-evaluate sandbox settings"} ELSE {})

\* new Date(a.expires_at) > now
StillActive(a, t) == a.exp > t

\* events.map((e) => ({ timestamp, event: e.message, severity, source }))
TimelineEntry(e) ==
    [timestamp |-> e.timestamp, event |-> e.message, severity |-> e.severity]

\* the message of the first critical or high event, else of the first event,
\* else the placeholder
Summarize(events) ==
    LET criticalEvents ==
            {i \in DOMAIN events : events[i].severity \in {"critical", "high"}}
    IN  IF criticalEvents # {}
        THEN events[CHOOSE i \in criticalEvents :
                        \A j \in criticalEvents : i <= j].message
        ELSE IF events # <<>> THEN events[1].message
        ELSE "Unknown incident"

\* null, and a call that threw
NoReport ==
    [threw |-> FALSE, found |-> FALSE, summary |-> "", timeline |-> <<>>,
     contributions |-> <<>>, recommendations |-> {}]

Thrown == [NoReport EXCEPT !.threw = TRUE]

\* generateFromEvents(events, findings), the ledger file being f and the time t
generateFromEvents(f, t, events) ==
    LET loaded == loadAcceptances(f)
        isActive(a) == StillActive(a, t)
        activeAcceptances == SelectSeq(loaded.list, isActive)
        contributions == findContributingRisks(events, activeAcceptances)
    IN  IF loaded.threw THEN Thrown
        ELSE [threw |-> FALSE, found |-> TRUE,
              summary |-> Summarize(events),
              timeline |-> [i \in DOMAIN events |-> TimelineEntry(events[i])],
              contributions |-> contributions,
              recommendations |-> generateRecommendations(events, contributions)]

RECURSIVE ScanBack(_, _, _, _)
\* for (const line of lines.reverse()): a line that does not parse is
\* skipped, the first event older than oneHourAgo ends the loop, any other is
\* unshifted
ScanBack(lines, i, oneHourAgo, recentEvents) ==
    IF i = 0 THEN recentEvents
    ELSE IF lines[i].kind = "bad"
         THEN ScanBack(lines, i - 1, oneHourAgo, recentEvents)
    ELSE IF lines[i].timestamp < oneHourAgo THEN recentEvents
    ELSE ScanBack(lines, i - 1, oneHourAgo, <<lines[i]>> \o recentEvents)

\* generateLastIncident(), the events file being ef, the ledger file f, the
\* time t (as the ledger counts it) and ms (Date.now())
generateLastIncident(ef, f, t, ms) ==
    LET recentEvents == ScanBack(ef.lines, Len(ef.lines), ms - HourMs, <<>>)
    IN  IF ~ef.exists THEN NoReport
        ELSE IF ef.lines = <<>> THEN NoReport
        ELSE IF recentEvents = <<>> THEN NoReport
        ELSE generateFromEvents(f, t, recentEvents)

\* ---- the ledgers, events and events files the reporter is explored with

ReportIds == {"CHAN-001", "TOOL-002", "NET-003"}

\* a ledger of one record
OneRecord(id, exp) == appendFileSync(EmptyFile, Serialize(id, exp, Genesis))

\* a ledger of two records, the second chained to the first
TwoRecords(id1, exp1, id2, exp2) ==
    appendFileSync(OneRecord(id1, exp1),
                   Serialize(id2, exp2, sha256(Serialize(id1, exp1, Genesis))))

\* no ledger, one record (expiring at 1 or at 2), two records, and a ledger
\* with a line that does not parse
ReportLedgers ==
    {Missing}
    \cup {OneRecord(id, exp) : id \in ReportIds, exp \in {1, 2}}
    \cup {TwoRecords("CHAN-001", 2, "TOOL-002", 2),
          TwoRecords("TOOL-002", 2, "TOOL-002", 2),
          TwoRecords("TOOL-002", 1, "NET-003", 2),
          appendFileSync(OneRecord("TOOL-002", 2), Garbage)}

\* what the sampled events are about: <<type, severity, message>>
EventKinds ==
    {<<"file_access", "high", "Sensitive file access: unknown">>,
     <<"config_change", "warning", "Config file changed: openclaw.json">>,
     <<"config_change", "warning",
       "Config file changed: credentials/telegram.json">>,
     <<"config_change", "warning", "Config file changed: gateway.yaml">>}

\* the events handed to generateFromEvents
SampleEvents ==
    {WatchEvent(k[1], k[2], k[3], t) : k \in EventKinds, t \in {TickMs, 2 * TickMs}}

EventLists == UNION {[1..n -> SampleEvents] : n \in 0..2}

\* the lines of the events file: events from before the last hour, one hour
\* old, from within the hour, and a line that does not parse
LogLines ==
    {WatchEvent("file_access", "high", "Sensitive file access: unknown", t) :
         t \in {0, TickMs, 2 * TickMs}}
    \cup {WatchEvent("config_change", "warning",
                     "Config file changed: openclaw.json", 2 * TickMs),
          BadLine}

EventFiles ==
    {NoEvents}
    \cup {[exists |-> TRUE, lines |-> l] :
             l \in UNION {[1..n -> LogLines] : n \in 0..MaxEventLines}}

\* `antenna incident` on a host where no watcher runs: the ledger and the
\* events file are as earlier commands left them, one and a half hours into
\* the modelled clock
ReportInit ==
    /\ file \in ReportLedgers
    /\ now = 1
    /\ pc = [p \in Procs |-> "idle"]
    /\ loc = [p \in Procs |-> NoLoc]
    /\ edits = 0
    /\ op = [name |-> "init", id |-> "", res |-> 0]
    /\ options = DefaultOptions
    /\ killCount = 0
    /\ killCountResetTime = 0
    /\ startTime = 0
    /\ running = FALSE
    /\ openclawUid = ""
    /\ clock = 3 * TickMs
    /\ env = NoSources
    /\ auditLog = <<>>
    /\ runs = <<>>
    /\ call = [m \in Monitors |-> NoCall]
    /\ turn = "none"
    /\ emitted = 0
    /\ acts = <<>>
    /\ win = [qual |-> 0, kills |-> 0, by |-> ""]
    /\ timers = <<>>
    /\ restarts = <<>>
    /\ settling = <<>>
    /\ burst = 0
    /\ eventsFile \in EventFiles
    /\ notices = [i \in 1..MaxStarts |-> 0]

\* reporter.generateFromEvents(events, [])
GenerateFromEvents(events) ==
    /\ op' = [name |-> "generateFromEvents", id |-> events,
              res |-> generateFromEvents(file, now, events)]
    /\ UNCHANGED <<Ledger, wvars>>

\* reporter.generateLastIncident()
GenerateLastIncident ==
    /\ op' = [name |-> "generateLastIncident", id |-> "",
              res |-> generateLastIncident(eventsFile, file, now, clock)]
    /\ UNCHANGED <<Ledger, wvars>>

ReportNext ==
    \/ \E events \in EventLists : GenerateFromEvents(events)
    \/ GenerateLastIncident

ReportSpec == ReportInit /\ [][ReportNext]_vars

\* ------------------------------------------------------------ claims C21..C30

\* the read operations of the ledger
ReadOps == {"loadAcceptances", "getAcceptance", "getSummary", "verifyChain"}

\* the result an empty ledger gives to the read named n
EmptyAnswer(n, res) ==
    CASE n = "loadAcceptances" -> res = [threw |-> FALSE, list |-> <<>>]
      [] n = "getAcceptance"   -> res = [threw |-> FALSE, rec |-> NoRec]
      [] n = "getSummary"      -> /\ ~res.threw
                                  /\ res.total = 0
                                  /\ res.active = 0
                                  /\ res.expired = 0
      [] n = "verifyChain"     -> res.valid

\* the tags of the rules on SSH, cloud-credential and GPG material
SecretTags ==
    {"antenna_ssh", "antenna_aws", "antenna_gcloud", "antenna_creds",
     "antenna_gpg"}

\* C21: the event the log-tail monitor hands to the sink for a line has type
\* file_access; its severity is high exactly when the line's tag is one of
\* antenna_ssh, antenna_aws, antenna_gcloud, antenna_creds, antenna_gpg, and
\* warning for every other recognized tag
C21_SeverityFollowsTag ==
    (op.name = "auditLine" /\ op.res = "emitted")
        => /\ call["audit"].stage = "emit"
           /\ call["audit"].type = "file_access"
           /\ call["audit"].severity = "high" <=> op.id \in SecretTags
           /\ op.id \notin SecretTags => call["audit"].severity = "warning"

\* line n of the log has been taken by a log-tail monitor
Taken(n) == \E i \in DOMAIN runs : runs[i].pos >= n

\* C22: while the watcher is running, a qualifying line of the monitored log
\* has been read by the log-tail monitor or a log-tail monitor is there to
\* read it: the monitor waits for new lines until stop()
C22_TailKeepsReadingUntilStop ==
    running
        => \A n \in DOMAIN auditLog :
               (CarriesTag(auditLog[n]) /\ OfAccount(auditLog[n], openclawUid))
                   => (Taken(n) \/ Live("audit"))

\* C23: the directory-change monitor debounces: changes to one path that
\* follow each other with no time passing in between (all within one debounce
\* interval) give a single config_change event
C23_ChangesAreDebounced == burst <= 1

\* C24: once the transcript monitor's callback for a change that appended a
\* secret-like pattern to a .jsonl transcript has run past its settle delay, a
\* secret_detected event has been handed to the sink
C24_SecretInTranscriptIsReported ==
    (op.name = "transcriptScan" /\ op.res = "secret")
        => /\ call["transcripts"].stage = "emit"
           /\ call["transcripts"].type = "secret_detected"

\* the timeline entry that stands for event e
EntryOf(e) ==
    [timestamp |-> e.timestamp, event |-> e.message, severity |-> e.severity]

\* C26: the timeline of the report correlate() returns for a list of events
\* has one entry per event of the list and is in non-decreasing order of the
\* events' timestamps, in whatever order the events were passed
C26_TimelineInTimestampOrder ==
    op.name = "generateFromEvents"
        => LET timeline == op.res.timeline
           IN  /\ ~op.res.threw
               /\ Len(timeline) = Len(op.id)
               /\ \A i \in DOMAIN op.id :
                      \E j \in DOMAIN timeline : timeline[j] = EntryOf(op.id[i])
               /\ \A i, j \in DOMAIN timeline :
                      i < j => timeline[i].timestamp <= timeline[j].timestamp

\* the records of the ledger that parse, in file order
ParsedRecords(f) ==
    LET lines == SelectSeq(Records(f), Parses)
    IN  [i \in DOMAIN lines |-> JSONparse(lines[i])]

\* the prefix rule of acceptance id matches the events
RuleMatches(id, events) ==
    \/ startsWith(id, "CHAN-") /\ hasChannelEvent(events)
    \/ startsWith(id, "TOOL-") /\ hasFileAccess(events)
    \/ startsWith(id, "NET-") /\ hasNetworkEvent(events)

\* the acceptances that are active at time t and whose rule matches
Contributing(f, t, events) ==
    LET matches(a) == t < a.exp /\ RuleMatches(a.id, events)
    IN  SelectSeq(ParsedRecords(f), matches)

\* the active acceptances of the ledger at time t
ActiveRecords(f, t) ==
    LET active(a) == t < a.exp
    IN  SelectSeq(ParsedRecords(f), active)

SandboxAdvice == {"Enable sandbox mode for agents", "Re-evaluate sandbox settings"}

\* C27: the contributions of the report are, one each and in ledger order,
\* the active acceptances whose prefix rule matches the events (CHAN-: an
\* event mentions a channel name; TOOL-: an event of type file_access; NET-:
\* an event mentions gateway or network), and no other; with one file_access
\* event and one active TOOL- acceptance there is exactly one contribution
\* and a recommendation about the sandbox
C27_OneContributionPerMatchingAcceptance ==
    op.name = "generateFromEvents"
        => LET contributions == op.res.contributions
               active == ActiveRecords(file, now)
           IN  /\ ~op.res.threw
               /\ [i \in DOMAIN contributions |-> contributions[i].acceptance]
                      = Contributing(file, now, op.id)
               /\ (/\ Len(op.id) = 1
                   /\ op.id[1].type = "file_access"
                   /\ Len(active) = 1
                   /\ startsWith(active[1].id, "TOOL-"))
                      => /\ Len(contributions) = 1
                         /\ op.res.recommendations \cap SandboxAdvice # {}

\* the events of the events file, in log order
LoggedEvents ==
    LET isEvent(l) == l.kind = "event"
    IN  IF eventsFile.exists THEN SelectSeq(eventsFile.lines, isEvent) ELSE <<>>

\* the event is not more than one hour old
WithinLastHour(e) == clock - e.timestamp <= HourMs

\* the longest run of events at the end of the log that are all within the
\* last hour
TrailingRun(events) ==
    LET n == Len(events)
        fits(k) == \A i \in (n - k + 1)..n : WithinLastHour(events[i])
        k == CHOOSE k \in 0..n : fits(k) /\ \A j \in 0..n : fits(j) => j <= k
    IN  SubSeq(events, n - k + 1, n)

\* C28: lastIncident() returns no incident when the events file is absent,
\* holds no event, or its newest event is more than one hour old; otherwise
\* it returns a report whose timeline is the run of events at the end of the
\* log that are within the last hour, in log order
C28_LastIncidentIsTrailingHour ==
    op.name = "generateLastIncident"
        => LET events == LoggedEvents
               run == TrailingRun(events)
           IN  /\ ~op.res.threw
               /\ IF events = <<>> \/ ~WithinLastHour(events[Len(events)])
                  THEN ~op.res.found
                  ELSE /\ op.res.found
                       /\ op.res.timeline = [i \in DOMAIN run |-> EntryOf(run[i])]

\* the stages an emitEvent call may pass through, one after the other
SinkOrder(toFile) ==
    {<<"idle", "emit">>,
     <<"emit", IF toFile THEN "write" ELSE "check">>,
     <<"write", "check">>,
     <<"check", "kill">>, <<"check", "idle">>,
     <<"kill", "idle">>}

\* C25: for every event the sink does the console line, then the append to
\* the output file when one is configured, then the kill decision, in that
\* order; an append that fails is followed by the kill decision like one that
\* went through, and the sink takes later events
C25_ConsoleThenFileThenDecision ==
    [][\A m \in Monitors :
          call'[m].stage # call[m].stage
              => <<call[m].stage, call'[m].stage>> \in SinkOrder(options.outputFile)]_vars

\* two events, both appends failed, a protective action for each
C25_Witness ==
    /\ options.outputFile
    /\ emitted = 2
    /\ eventsFile.lines = <<>>
    /\ Len(acts) = 2
    /\ op.name = "killGateway"

\* the timeouts and the restarts that belong to protective action a
PendingFor(a) == {k \in DOMAIN timers : timers[k].act = a}
FiredFor(a) == {k \in DOMAIN restarts : restarts[k].act = a}

\* C30: with a restart delay configured, every protective action performed
\* has exactly one restart, pending or fired, and a fired one fired no sooner
\* than the delay after its action; there are no other restarts (an event
\* that was rate-limited, cooled down or below the threshold sets none); the
\* step that restarts leaves the kill counter and the window start as they are
C30_OneRestartPerAction ==
    /\ [](options.restartAfter # 0
            => /\ \A a \in DOMAIN acts :
                      Cardinality(PendingFor(a)) + Cardinality(FiredFor(a)) = 1
               /\ Len(timers) + Len(restarts) = Len(acts)
               /\ \A k \in DOMAIN timers :
                      /\ timers[k].act \in DOMAIN acts
                      /\ timers[k].due = acts[timers[k].act].at
                                             + 1000 * options.restartAfter
               /\ \A k \in DOMAIN restarts :
                      /\ restarts[k].act \in DOMAIN acts
                      /\ restarts[k].at >= acts[restarts[k].act].at
                                               + 1000 * options.restartAfter)
    /\ [][restarts' # restarts
             => /\ killCount' = killCount
                /\ killCountResetTime' = killCountResetTime]_vars

\* cap 1: one action, its restart fired, and a later qualifying event that
\* was rate-limited and set no restart
C30_Witness ==
    /\ options.restartAfter # 0
    /\ Len(acts) = 1
    /\ Len(restarts) = 1
    /\ timers = <<>>
    /\ op.name = "checkKillCondition"
    /\ op.res = "ratelimited"

\* C29: while the backing file does not exist, every read operation answers as
\* an empty ledger does (loadAll: no record, get: none, summary: zero records,
\* verifyChain: valid) and leaves the file as it is, still absent
C29_MissingFileReadsAsEmptyLedger ==
    [][(~existsSync(file) /\ op'.name \in ReadOps)
       => (file' = file /\ EmptyAnswer(op'.name, op'.res))]_vars

\* every read operation has been made on a ledger whose file is absent
C29_Witness ==
    /\ ~existsSync(file)
    /\ op.name = "getAcceptance"
    /\ op.res.rec = NoRec

\* ------------------------------------------------------------ claims C31..C40

\* the record is active at time t: t is before its expiration
ActiveAt(a, t) == t < a.exp

\* C31: a record is active exactly while now is before its expiration, and
\* getAcceptance(), getSummary() and the reporter's filter of the active
\* acceptances all classify by that rule, also when now is the expiration:
\* getAcceptance() returns the record it finds for an id exactly when that
\* record is active, the reporter keeps it exactly then, and getSummary()
\* counts as active exactly the active records
C31_OneExpiryRule ==
    /\ (op.name = "getAcceptance" /\ ~op.res.threw)
           => LET a == Find(ParsedRecords(file), op.id)
              IN  a # NoRec
                      => /\ (op.res.rec # NoRec) <=> ActiveAt(a, now)
                         /\ StillActive(a, now) <=> ActiveAt(a, now)
    /\ (op.name = "getSummary" /\ ~op.res.threw)
           => LET records == ParsedRecords(file)
              IN  op.res.active
                      = Cardinality({i \in DOMAIN records : ActiveAt(records[i], now)})

\* the file without its last raw line
Completed(f) ==
    [exists |-> TRUE, lines |-> SubSeq(f.lines, 1, Len(f.lines) - 1), nl |-> TRUE]

\* what the read named n returns on file f at time t
ReadOf(n, id, f, t) ==
    CASE n = "loadAcceptances" -> loadAcceptances(f)
      [] n = "getAcceptance"   -> getAcceptance(f, t, id)
      [] n = "getSummary"      -> getSummary(f, t)
      [] n = "verifyChain"     -> verifyChain(f)

\* C32: a read made while an accept() has written only part of its record
\* answers from the complete, newline-terminated records alone: it returns
\* what it returns on the file without the partial record, so it neither
\* throws nor reports a broken chain because of that record
C32_ReadersTrustCompleteRecordsOnly ==
    (op.name \in ReadOps /\ \E p \in Procs : pc[p] = "acc_rest")
        => op.res = ReadOf(op.name, op.id, Completed(file), now)

\* C35: whatever the interleaving of two accept() calls, the record an
\* accept() appends commits to the line that precedes it in the file (to the
\* genesis value when it is the first), so the ledger still passes
\* verifyChain()
C35_InterleavedAcceptsKeepChain ==
    [][(op'.name = "appendFileSync" /\ edits = 0)
       => LET n == Len(file'.lines)
          IN  /\ file'.lines[n] = op'.res.rec
              /\ op'.res.rec.prev = IF n = 1 THEN Genesis
                                            ELSE sha256(file'.lines[n - 1])
              /\ verifyChain(file').valid]_vars

\* the filename ends in .tmp or in .lock
TransientName(filename) == filename \in {"openclaw.json.tmp", "gateway.lock"}

\* C34: a change notified to the directory-change monitor gives an event
\* exactly when the watcher is running and the change has a filename that
\* does not end in .tmp or .lock; the event is a config_change event
C34_TransientChangesGiveNoEvent ==
    op.name = "fsChange"
        => /\ op.res = "emitted"
                  <=> (running /\ op.id # "" /\ ~TransientName(op.id))
           /\ op.res = "emitted"
                  => /\ call["config"].stage = "emit"
                     /\ call["config"].type = "config_change"

\* a change of a lock file, notified while the watcher runs, was ignored
C34_Witness ==
    /\ op.name = "fsChange"
    /\ op.id = "gateway.lock"
    /\ op.res = "ignored"
    /\ running

\* the start() calls whose monitor m is alive
LiveInstances(m) == {i \in DOMAIN runs : runs[i][m] = "live"}

\* C37: under any sequence of start() and stop() calls, at most one instance
\* of each monitor is alive at any time (so one change of a source reaches the
\* sink once)
C37_OneInstancePerMonitor ==
    \A m \in Monitors : Cardinality(LiveInstances(m)) <= 1

C38_StoppedWatcherIssuesNothing ==
    [][(~running /\ ~running')
          => /\ emitted' = emitted
             /\ acts' = acts
             /\ restarts' = restarts]_vars

\* C39: with a restart delay D configured, a start command is issued only
\* when every protective stop performed so far is at least D seconds old
C39_NoRestartWithinDelayOfAnyStop ==
    (options.restartAfter # 0 /\ op.name = "restart")
        => \A a \in DOMAIN acts :
               clock >= acts[a].at + 1000 * options.restartAfter

\* C36: with the events file inside the watched directory, an append the
\* watcher itself made to it never yields a further config_change event
C36_OwnAppendsCauseNoEvent ==
    op.name = "ownChange" => op.res = "ignored"

\* every monitor of every start() call has terminated and every promise
\* returned by start() is resolved
AllResolved ==
    \A i \in DOMAIN runs :
        /\ \A m \in Monitors : runs[i][m] # "live"
        /\ runs[i].promise = "resolved"

\* C33: once stop() has been called on a started watcher, then unless start()
\* is called again every monitor terminates and the promise returned by
\* start() resolves
C33_StoppedWatcherWindsDown ==
    (~running /\ runs # <<>>) ~> (running \/ AllResolved)

====
